---- MODULE Spec2Model ----
(***************************************************************************)
(* Model of heudiconv/cli/run.py: main, the head of process_args and its   *)
(* session loop.                                                           *)
(*                                                                         *)
(* Names used by run.py but bound outside it (get_annonimized_sid,         *)
(* add_to_datalad, convert_dicoms, tempdirs, opj, exists, Dataset) are     *)
(* collaborators: each call either returns or raises.  Python values are   *)
(* represented as follows: None is the string None; a path is the sequence *)
(* of its components; a FileList is its length; a SequenceMap is the       *)
(* sequence of the lengths of its values.                                  *)
(***************************************************************************)
EXTENDS Integers, Sequences, FiniteSets, TLC

\* ------------------------------------------------------------------ bounds
MaxSessions == 2
MaxFiles == 2
MaxSeqs == 2

\* ------------------------------------------------------- python constants
None == "<None>"
Unbound == <<"<unbound>">>
NoSuf == [sid |-> None, session |-> None, nseq |-> -1, ndicoms |-> -1]
NoMsg == [prefix |-> None, suf |-> NoSuf]
Progname == "run.py"
HeuristicFile == "heuristic.py"
Converter == "dcm2niix"

Locators == {"studyA", "unknown", ""}
SessionLabels == {None, "ses1"}

\* a FileList of n files; a SequenceMap of n sequences, the j-th of j files
FileList(n) == [kind |-> "list", files |-> n, seqs |-> <<>>]
SequenceMap(n) == [kind |-> "dict", files |-> 0, seqs |-> [j \in 1..n |-> j]]
\* the empty and the largest payload of each variant
Payloads == {FileList(0), FileList(MaxFiles), SequenceMap(0), SequenceMap(MaxSeqs)}

SidOf(k) == "sub" \o ToString(k)

\* the sessions get_study_sessions can return for one session label
SessionsWith(label) == [locator : Locators, session : {label}, payload : Payloads]

\* the for statement reads study_sessions item by item and an empty payload
\* ends the run, so the items behind the first empty payload are never read:
\* they are one fixed valid session each, which must never be processed
Unread(label) ==
    [locator |-> "studyA", session |-> label, payload |-> FileList(MaxFiles)]
ReadOnce(ss, label) ==
    \A k \in 1..Len(ss) :
       (\E j \in 1..(k - 1) : ss[j].payload \in {FileList(0), SequenceMap(0)})
          => ss[k] = Unread(label)

\* lines 219-221: get_study_sessions is given args.session, the session label
\* of the keys it returns; the keys (locator, session, sid) differ in sid
GetStudySessions(a) ==
    {ss \in UNION {[1..n -> SessionsWith(a.session)] : n \in 0..MaxSessions} :
        ReadOnce(ss, a.session)}

Template == "rawdata/{subject}"

\* args as left by get_parser().parse_args(), for a regular run: a template,
\* no files and no --command
Args ==
    [outdir : {<<"out">>},
     conv_outdir : {<<None>>, <<"out">>, <<"conv">>},
     anon_cmd : {None, "anon"},
     session : SessionLabels,
     queue : {None, "main"},
     with_prov : BOOLEAN,
     bids : BOOLEAN,
     datalad : BOOLEAN,
     command : {None},
     files : {<<>>},
     dicom_dir_template : {Template}]

VARIABLES
    args,               \* the parsed arguments (read only)
    study_sessions,     \* ordered collection returned by get_study_sessions
    i,                  \* position of the for loop in study_sessions
    pc,                 \* position of process_args within the iteration
    error,              \* exception propagating out of process_args, or None
    anon_sid,           \* locals of process_args, kept across iterations
    study_outdir,
    anon_study_outdir,
    datalad_msg_suf,
    installed,          \* directories holding an installed dataset
    existing,           \* directories that exist
    batch_env,          \* what the disk and the scheduler answer to a batch job
    events              \* calls made and log lines written, in order

vars == <<args, study_sessions, i, pc, error, anon_sid, study_outdir,
          anon_study_outdir, datalad_msg_suf, installed, existing, batch_env,
          events>>

\* ------------------------------------------------------------ pure helpers
RECURSIVE SumSeq(_)
SumSeq(s) == IF s = <<>> THEN 0 ELSE Head(s) + SumSeq(Tail(s))

\* len(files_or_seqinfo)
PayloadLen(p) == IF p.kind = "dict" THEN Len(p.seqs) ELSE p.files

\* mutant: only an empty list is taken for empty
IsEmptyPayload_listOnly(p) == p.kind = "list" /\ p.files = 0

\* not len(files_or_seqinfo)
IsEmptyPayload(p) == PayloadLen(p) = 0

\* lines 235-241: a dict payload is seqinfo (its keys are SeqInfo, so the
\* assert of line 236 holds) and dicoms is None; any other payload is dicoms
HasSeqinfo(p) == p.kind = "dict" /\ Len(p.seqs) > 0
HasDicoms(p) == p.kind = "list" /\ p.files > 0

\* mutant: the sentinel is misspelt
IsUnknownLocator_caseSlip(locator) == locator = "Unknown"

\* locator == 'unknown'
IsUnknownLocator(locator) == locator = "unknown"

\* mutant: the test is inverted (dicoms and not seqinfo)
IsPreGrouped_inverted(p) == HasDicoms(p) /\ ~HasSeqinfo(p)

\* seqinfo and not dicoms
IsPreGrouped(p) == HasSeqinfo(p) /\ ~HasDicoms(p)

\* mutant: the locator is lost
LocatorOrEmpty_dropped(locator) == ""

\* locator or ''
LocatorOrEmpty(locator) == IF locator = None \/ locator = "" THEN "" ELSE locator

\* os.path.join: joining '' leaves a trailing separator
opj(a, b) == Append(a, b)

\* the directory a path names
Dir(p) == SelectSeq(p, LAMBDA c : c # "")

\* mutant: conv_outdir is not looked at
AnonOutdir_ignoresConv(a) == a.outdir

\* args.conv_outdir or outdir
AnonOutdir(a) == IF a.conv_outdir = <<None>> THEN a.outdir ELSE a.conv_outdir

\* str(path)
RECURSIVE PathStr(_)
PathStr(p) == IF p = <<>> THEN "" ELSE "/" \o Head(p) \o PathStr(Tail(p))

\* ------------------------------------------------------------------ events
Ev(op, k) ==
    [op |-> op, idx |-> k, ok |-> TRUE, sid |-> None, anon_sid |-> None,
     top |-> <<>>, path |-> <<>>, anon_path |-> <<>>, msg |-> NoMsg,
     bids |-> FALSE, file |-> None, text |-> <<>>]

\* -------------------------------------------------------------------- Init
Init ==
    /\ args \in Args
    /\ study_sessions \in GetStudySessions(args)
    /\ i = 1
    /\ pc = "loop"
    /\ error = None
    /\ anon_sid = None
    /\ study_outdir = Unbound
    /\ anon_study_outdir = Unbound
    /\ datalad_msg_suf = NoSuf
    /\ installed = {}
    /\ existing = {}
    /\ batch_env = {}
    /\ events = <<>>

\* the item the for statement is at
AtSession == pc = "loop" /\ i <= Len(study_sessions)
Cur == study_sessions[i]

\* mutant: the loop body's exception is swallowed and the loop goes on
Raise_swallowed(e) ==
    /\ pc' = "loop"
    /\ error' = error
    /\ i' = i + 1

\* an exception leaves the loop and process_args: nothing catches it
Raise(e) ==
    /\ pc' = "raised"
    /\ error' = e
    /\ i' = i

\* continue / end of the loop body: the for statement takes the next item
NextSession ==
    /\ pc' = "loop"
    /\ error' = error
    /\ i' = i + 1

Locals == <<anon_sid, study_outdir, anon_study_outdir, datalad_msg_suf>>
Disk == <<installed, existing>>
Env == batch_env
Input == <<args, study_sessions>>

\* mutant: the locator is tested before the payload
EmptyPayload_afterLocator ==
    /\ AtSession
    /\ IsEmptyPayload(Cur.payload)
    /\ IF IsUnknownLocator(Cur.locator)
          THEN events' = Append(events, Ev("skip", i)) /\ NextSession
          ELSE events' = events /\ Raise("ValueError")
    /\ UNCHANGED <<Input, Locals, Disk, Env>>

\* lines 231-232: if not len(files_or_seqinfo): raise ValueError
EmptyPayload ==
    /\ AtSession
    /\ IsEmptyPayload(Cur.payload)
    /\ Raise("ValueError")
    /\ UNCHANGED <<Input, Locals, Disk, Env, events>>

\* mutant: the session is skipped without the warning
SkipUnknown_silent ==
    /\ AtSession
    /\ ~IsEmptyPayload(Cur.payload)
    /\ IsUnknownLocator(Cur.locator)
    /\ NextSession
    /\ UNCHANGED <<Input, Locals, Disk, Env, events>>

\* lines 243-245: unknown locator: warn and continue
SkipUnknown ==
    /\ AtSession
    /\ ~IsEmptyPayload(Cur.payload)
    /\ IsUnknownLocator(Cur.locator)
    /\ events' = Append(events, Ev("skip", i))
    /\ NextSession
    /\ UNCHANGED <<Input, Locals, Disk, Env>>

\* ------------------------------------------------------------- batch mode
Ok(v) == [err |-> None, val |-> v]
Err(e) == [err |-> e, val |-> <<>>]

\* ' '.join(list): every item must be a str
JoinArgs(list) ==
    IF \E j \in 1..Len(list) : list[j] = None THEN Err("TypeError") ELSE Ok(list)

\* convertcmd += [...]: a str and a list do not add
IAddList(cmd, n) == Err("TypeError")

\* python truth value of an optional string
Truthy(s) == s # None /\ s # ""

\* lines 258-271: the command line of the batch job
ConvertCmd(a, s, sid, outd) ==
    IF outd = Unbound THEN Err("UnboundLocalError")
    ELSE LET joined == JoinArgs(<<"python", Progname, "-o", PathStr(outd),
                                  "-f", HeuristicFile, "-s", sid,
                                  "--anon-cmd", a.anon_cmd, "-c", Converter>>)
             c1 == IF Truthy(s.session)
                   THEN joined.val \o <<"--ses", s.session>> ELSE joined.val
             c2 == IF a.with_prov THEN Append(c1, "--with-prov") ELSE c1
             c3 == IF a.bids THEN Append(c2, "--bids") ELSE c2
         IN  IF joined.err # None THEN joined ELSE IAddList(c3, s.payload.files)

\* line 273
ScriptFile(sid) == "dicom-" \o sid \o ".sh"

\* lines 276-277
OutCmd(sid, queue) ==
    <<"sbatch", "-J", "dicom-" \o sid, "-p", queue, "-N1", "-c2", "--mem=20G",
      ScriptFile(sid)>>

InBatch ==
    /\ AtSession
    /\ ~IsEmptyPayload(Cur.payload)
    /\ ~IsUnknownLocator(Cur.locator)
    /\ Truthy(args.queue)

\* lines 248-256: a pre-grouped payload cannot be queued
BatchPreGrouped ==
    /\ InBatch
    /\ IsPreGrouped(Cur.payload)
    /\ Raise("NotImplementedError")
    /\ UNCHANGED <<Input, Locals, Disk, Env, events>>

\* lines 258-279: build the command, write the script, submit it, continue.
\* open() may raise; the status os.system returns is dropped.  written and
\* status are what the disk and sbatch answer while this session is handled.
BatchEmit ==
    /\ InBatch
    /\ ~IsPreGrouped(Cur.payload)
    /\ \E written \in BOOLEAN, status \in {0, 1} :
         LET sid == SidOf(i)
             cmd == ConvertCmd(args, Cur, sid, study_outdir)
         IN
           /\ batch_env' = batch_env \cup
                  {[idx |-> i, written |-> written, status |-> status]}
           /\ IF cmd.err # None
              THEN Raise(cmd.err) /\ events' = events
              ELSE
                  IF ~written
                  THEN Raise("IOError") /\ events' = events
                  ELSE /\ events' = events \o
                            << [Ev("script", i) EXCEPT !.sid = sid,
                                   !.file = ScriptFile(sid),
                                   !.text = << <<"#!/bin/bash">>, cmd.val >>],
                               [Ev("submit", i) EXCEPT !.sid = sid,
                                   !.ok = (status = 0),
                                   !.file = ScriptFile(sid),
                                   !.text = << OutCmd(sid, args.queue) >>] >>
                       /\ NextSession
    /\ UNCHANGED <<Input, Locals, Disk>>

\* ------------------------------------------------------------- local mode
\* get_annonimized_sid(sid, anon_cmd): sid itself without a command, the
\* command's output with one
AnonymizedSid(sid, anon_cmd) == IF anon_cmd = None THEN sid ELSE "anon-" \o sid

\* get_annonimized_sid returns; it can raise only when it runs a command
AnonOutcomes(anon_cmd) == IF anon_cmd = None THEN {TRUE} ELSE BOOLEAN

\* mutant: the sequences are counted where the files should be
MsgSuf_filesMiscounted(asid, s) ==
    [sid |-> asid,
     session |-> IF Truthy(s.session) THEN s.session ELSE None,
     nseq |-> IF HasSeqinfo(s.payload) THEN Len(s.payload.seqs) ELSE -1,
     ndicoms |-> IF HasSeqinfo(s.payload) THEN Len(s.payload.seqs)
                 ELSE s.payload.files]

\* lines 291-298: the suffix of both commit messages
MsgSuf(asid, s) ==
    [sid |-> asid,
     session |-> IF Truthy(s.session) THEN s.session ELSE None,
     nseq |-> IF HasSeqinfo(s.payload) THEN Len(s.payload.seqs) ELSE -1,
     ndicoms |-> IF HasSeqinfo(s.payload) THEN SumSeq(s.payload.seqs)
                 ELSE s.payload.files]

\* ds.is_installed() for ds = Dataset(path)
IsInstalled(path) == Dir(path) \in installed

\* exists(path)
Exists(path) == Dir(path) \in existing

\* mutant: the dataset is installed before every conversion
NeedsInstall_always(anon_outdir, anon_study) == TRUE

\* line 301: not exists(anon_outdir) or not ds.is_installed()
NeedsInstall(anon_outdir, anon_study) ==
    ~Exists(anon_outdir) \/ ~IsInstalled(anon_study)

\* line 290: if args.datalad
DataladBefore(a) == a.datalad

\* mutant: the commit is made whether or not --datalad was given
DataladAfter_always(a) == TRUE

\* line 324: if args.datalad
DataladAfter(a) == a.datalad

\* add_to_datalad(top, path, ...): the dataset at path is installed under top
AddToDatalad(top, path) ==
    /\ installed' = installed \cup {Dir(path)}
    /\ existing' = existing \cup {Dir(top), Dir(path)}

\* mutant: the queue is not looked at
InLocal_ignoresQueue ==
    /\ AtSession
    /\ ~IsEmptyPayload(Cur.payload)
    /\ ~IsUnknownLocator(Cur.locator)

\* line 247 is false: the session is processed in this process
InLocal ==
    /\ AtSession
    /\ ~IsEmptyPayload(Cur.payload)
    /\ ~IsUnknownLocator(Cur.locator)
    /\ ~Truthy(args.queue)

\* lines 281-301: anonymized id, both output directories, the message suffix
\* and the decision to install the dataset first
ResolveSession ==
    /\ InLocal
    /\ \E ok \in AnonOutcomes(args.anon_cmd) :
         LET sid == SidOf(i)
             asid == AnonymizedSid(sid, args.anon_cmd)
             sod == opj(args.outdir, LocatorOrEmpty(Cur.locator))
             aod == AnonOutdir(args)
             asod == opj(aod, LocatorOrEmpty(Cur.locator))
             ev == [Ev("anon", i) EXCEPT !.sid = sid, !.ok = ok]
         IN  IF ~ok
             THEN /\ events' = Append(events, ev)
                  /\ Raise("AnonymizationError")
                  /\ UNCHANGED Locals
             ELSE /\ events' = Append(events, [ev EXCEPT !.anon_sid = asid])
                  /\ anon_sid' = asid
                  /\ study_outdir' = sod
                  /\ anon_study_outdir' = asod
                  /\ datalad_msg_suf' = IF DataladBefore(args)
                                        THEN MsgSuf(asid, Cur)
                                        ELSE datalad_msg_suf
                  /\ pc' = IF DataladBefore(args) /\ NeedsInstall(aod, asod)
                           THEN "ensure" ELSE "convert"
                  /\ error' = error
                  /\ i' = i
    /\ UNCHANGED <<Input, Disk, Env>>

\* lines 302-305: add_to_datalad(anon_outdir, anon_study_outdir, "Preparing for")
EnsureDataset ==
    /\ pc = "ensure"
    /\ \E ok \in BOOLEAN :
         LET ev == [Ev("ensure", i) EXCEPT !.ok = ok, !.top = AnonOutdir(args),
                       !.path = anon_study_outdir, !.bids = args.bids,
                       !.msg = [prefix |-> "Preparing for", suf |-> datalad_msg_suf]]
         IN  /\ events' = Append(events, ev)
             /\ IF ok
                THEN /\ AddToDatalad(AnonOutdir(args), anon_study_outdir)
                     /\ pc' = "convert"
                     /\ error' = error
                     /\ i' = i
                ELSE Raise("DataladError") /\ UNCHANGED Disk
    /\ UNCHANGED <<Input, Locals, Env>>

\* lines 306-322: convert_dicoms(...) between the two log lines
ConvertDicoms ==
    /\ pc = "convert"
    /\ \E ok \in BOOLEAN :
         LET ev == [Ev("convert", i) EXCEPT !.ok = ok, !.sid = SidOf(i),
                       !.anon_sid = anon_sid, !.path = study_outdir,
                       !.anon_path = anon_study_outdir, !.bids = args.bids]
         IN  /\ events' = Append(events, ev)
             /\ IF ok
                THEN IF DataladAfter(args)
                     THEN pc' = "commit" /\ error' = error /\ i' = i
                     ELSE NextSession
                ELSE Raise("ConversionError")
    /\ UNCHANGED <<Input, Locals, Disk, Env>>

\* lines 324-331: add_to_datalad(outdir, study_outdir, "Converted subject")
CommitDataset ==
    /\ pc = "commit"
    /\ \E ok \in BOOLEAN :
         LET ev == [Ev("commit", i) EXCEPT !.ok = ok, !.top = args.outdir,
                       !.path = study_outdir, !.bids = args.bids,
                       !.msg = [prefix |-> "Converted subject", suf |-> datalad_msg_suf]]
         IN  /\ events' = Append(events, ev)
             /\ IF ok
                THEN AddToDatalad(args.outdir, study_outdir) /\ NextSession
                ELSE Raise("DataladError") /\ UNCHANGED Disk
    /\ UNCHANGED <<Input, Locals, Env>>

\* mutant: cleanup in a finally clause, run after an exception as well
Cleanup_finally ==
    /\ \/ pc = "loop" /\ i > Len(study_sessions)
       \/ pc = "raised" /\ \A j \in 1..Len(events) : events[j].op # "cleanup"
    /\ events' = Append(events, Ev("cleanup", i))
    /\ pc' = IF pc = "raised" THEN "raised" ELSE "done"
    /\ UNCHANGED <<Input, Locals, Disk, Env, i, error>>

\* line 341: tempdirs.cleanup() once the loop is exhausted
Cleanup ==
    /\ pc = "loop"
    /\ i > Len(study_sessions)
    /\ events' = Append(events, Ev("cleanup", i))
    /\ pc' = "done"
    /\ UNCHANGED <<Input, Locals, Disk, Env, i, error>>

Next ==
    \/ EmptyPayload
    \/ SkipUnknown
    \/ BatchPreGrouped
    \/ BatchEmit
    \/ ResolveSession
    \/ EnsureDataset
    \/ ConvertDicoms
    \/ CommitDataset
    \/ Cleanup

Spec == Init /\ [][Next]_vars

\* the interpreter runs one statement after the other in a single thread and
\* every collaborator call returns or raises: a step that can be taken is taken
FairSpec == Spec /\ WF_vars(Next)

\* ------------------------------------- main and the head of process_args
\* the module has no docstring: __doc__ is None
ModuleDoc == None
Example == "Example: heudiconv -d rawdata/{subject} -o . -f heuristic.py -s s1 s2 s3"

\* line 117: '\n'.join((__doc__, """...Example..."""))
Docstr == JoinArgs(<<ModuleDoc, Example>>)

\* lines 182-185: the choices of --command
CommandChoices == {"treat-json", "ls", "populate-templates"}
\* lines 61-86: the commands process_extra_commands has a branch for
HandledCommands == CommandChoices \cup {"sanitize-jsons"}

\* what a caller can hand to main (parsed from the command line) or to
\* process_args directly
MainArgs ==
    [outdir : {<<"out">>},
     conv_outdir : {<<None>>},
     anon_cmd : {None},
     session : {None},
     queue : {None, "main"},
     with_prov : {FALSE},
     bids : {FALSE},
     datalad : BOOLEAN,
     command : {None, "ls", "treat-json", "populate-templates", "sanitize-jsons",
                "bogus"},
     files : {<<>>, <<"f1">>},
     dicom_dir_template : {None, Template}]

\* a run entered at main() or at process_args(args)
InitMain ==
    /\ args \in MainArgs
    /\ study_sessions = <<>>
    /\ i = 1
    /\ pc \in {"main", "process_args"}
    /\ (pc = "main" => args.command \in CommandChoices \cup {None})
    /\ error = None
    /\ anon_sid = None
    /\ study_outdir = Unbound
    /\ anon_study_outdir = Unbound
    /\ datalad_msg_suf = NoSuf
    /\ installed = {}
    /\ existing = {}
    /\ batch_env = {}
    /\ events = <<>>

\* lines 90-113: main() builds the parser first; the input check of lines
\* 96-97 and the call of process_args come after it
Main ==
    /\ pc = "main"
    /\ IF Docstr.err # None
          THEN /\ events' = Append(events, [Ev("get_parser", 0) EXCEPT !.ok = FALSE])
               /\ Raise(Docstr.err)
          ELSE /\ events' = Append(events, Ev("get_parser", 0))
               /\ IF args.files # <<>> /\ Truthy(args.dicom_dir_template)
                     THEN Raise("ValueError")
                     ELSE pc' = "process_args" /\ error' = error /\ i' = i
    /\ UNCHANGED <<Input, Locals, Disk, Env>>

\* lines 209-212 and 48-87: process_extra_commands(outdir, args) is called
\* when args.command is set; process_args goes on after it has returned
ExtraCommands ==
    /\ pc = "process_args"
    /\ IF Truthy(args.command)
          THEN \E ok \in BOOLEAN :
                  LET known == args.command \in HandledCommands
                      ev == [Ev("command", 0) EXCEPT !.ok = ok /\ known,
                                                     !.file = args.command]
                  IN  /\ events' = Append(events, ev)
                      /\ IF ~known THEN Raise("ValueError")
                         ELSE IF ~ok THEN Raise("CommandError")
                         ELSE pc' = "load" /\ error' = error /\ i' = i
          ELSE /\ events' = events
               /\ pc' = "load" /\ error' = error /\ i' = i
    /\ UNCHANGED <<Input, Locals, Disk, Env>>

\* lines 217 and 38-45: heuristic = load_heuristic(...)
LoadHeuristic ==
    /\ pc = "load"
    /\ \E ok \in BOOLEAN :
          /\ events' = Append(events, [Ev("load_heuristic", 0) EXCEPT
                                         !.ok = ok, !.file = HeuristicFile])
          /\ IF ok THEN pc' = "group" /\ error' = error /\ i' = i
                   ELSE Raise("ImportError")
    /\ UNCHANGED <<Input, Locals, Disk, Env>>

\* lines 219-227: study_sessions = get_study_sessions(...), then the loop
GroupSessions ==
    /\ pc = "group"
    /\ \E ok \in BOOLEAN :
          /\ events' = Append(events, [Ev("get_study_sessions", 0) EXCEPT !.ok = ok])
          /\ IF ok
                THEN /\ study_sessions' \in GetStudySessions(args)
                     /\ pc' = "loop" /\ error' = error /\ i' = i
                ELSE /\ study_sessions' = study_sessions
                     /\ Raise("GroupingError")
    /\ UNCHANGED <<args, Locals, Disk, Env>>

NextMain == Main \/ ExtraCommands \/ LoadHeuristic \/ GroupSessions \/ Next

SpecMain == InitMain /\ [][NextMain]_vars

\* ----------------------------------------------------------- properties
Positions == 1..Len(study_sessions)
EvIdx == 1..Len(events)
Sess(k) == study_sessions[k]
NonEmpty(k) ==
    \/ Sess(k).payload.kind = "list" /\ Sess(k).payload.files > 0
    \/ Sess(k).payload.kind = "dict" /\ Len(Sess(k).payload.seqs) > 0
EmptyAt(k) == ~NonEmpty(k)
KnownAt(k) == Sess(k).locator # "unknown"
FileListAt(k) == Sess(k).payload.kind = "list"
SeqMapAt(k) == Sess(k).payload.kind = "dict"
BatchMode == args.queue # None
LocalMode == args.queue = None
\* the loop body has run for session k, to its end or to an exception
Taken(k) == k < i \/ (k = i /\ pc # "loop")
\* the positions in events of the events of session k with an op in ops
CallsFor(k, ops) == {j \in EvIdx : events[j].idx = k /\ events[j].op \in ops}
Has(line, token) == \E n \in 1..Len(line) : line[n] = token

\* C1: a session with a non-empty payload and the locator "unknown" is
\* skipped in local and in batch mode, wherever it stands: its only event is
\* the one skip warning, there is no anonymized id, output path, script,
\* submission, add_to_datalad or convert_dicoms for it, no exception is raised
\* at it, and as long as only such sessions were met the locals that hold the
\* anonymized id and the output paths stay unset.
C1_UnknownLocatorSkipped ==
    /\ \A k \in Positions :
         (Sess(k).locator = "unknown" /\ NonEmpty(k)) =>
            /\ \A j \in EvIdx : events[j].idx = k => events[j].op = "skip"
            /\ Cardinality(CallsFor(k, {"skip"})) = IF k < i THEN 1 ELSE 0
            /\ (i = k => pc = "loop" /\ error = None)
            /\ \A e \in batch_env : e.idx # k
    /\ (\A k \in Positions : k <= i => Sess(k).locator = "unknown" /\ NonEmpty(k))
          => /\ anon_sid = None
             /\ study_outdir = Unbound
             /\ anon_study_outdir = Unbound

\* an unknown session in first place was skipped and the next one converted
C1_Witness ==
    /\ Len(study_sessions) = 2
    /\ Sess(1).locator = "unknown" /\ NonEmpty(1)
    /\ CallsFor(1, {"skip"}) = {1}
    /\ CallsFor(2, {"convert"}) # {}

\* C2: an empty payload at position k makes process_args raise ValueError at
\* k: the loop never gets past k and no event of a later session exists.
C2_EmptyPayloadAborts ==
    \A k \in Positions :
       EmptyAt(k) =>
          /\ i <= k
          /\ pc # "done"
          /\ \A j \in EvIdx : events[j].idx < k
          /\ \A e \in batch_env : e.idx < k
          /\ (i = k => \/ pc = "loop" /\ error = None
                       \/ pc = "raised" /\ error = "ValueError")

\* the run stopped at an empty first session; the second was never reached
C2_Witness ==
    /\ Len(study_sessions) = 2
    /\ EmptyAt(1) /\ NonEmpty(2) /\ KnownAt(2)
    /\ pc = "raised" /\ error = "ValueError" /\ i = 1
    /\ events = <<>>

\* C3: with a queue, a known locator and a non-empty SequenceMap the loop
\* body ends in NotImplementedError; no script was written and no submission
\* made for that session.
C3_BatchPreGroupedRaises ==
    \A k \in Positions :
       (BatchMode /\ KnownAt(k) /\ SeqMapAt(k) /\ NonEmpty(k)) =>
          /\ i <= k
          /\ CallsFor(k, {"script", "submit"}) = {}
          /\ \A j \in EvIdx : events[j].idx # k
          /\ \A e \in batch_env : e.idx # k
          /\ (Taken(k) => pc = "raised" /\ error = "NotImplementedError")

C3_Witness ==
    \E k \in Positions :
       /\ BatchMode /\ KnownAt(k) /\ SeqMapAt(k) /\ NonEmpty(k)
       /\ pc = "raised" /\ i = k /\ error = "NotImplementedError"

\* C4: with a queue, every FileList session with a known locator is queued:
\* one script dicom-<sid>.sh of a shebang line and a command line, then one
\* sbatch call (-J dicom-<sid> -p <queue> -N1 -c2 --mem=20G <script>), no
\* get_annonimized_sid, add_to_datalad or convert_dicoms, and the loop goes on.
C4_BatchSessionQueued ==
    \A k \in Positions :
       (BatchMode /\ KnownAt(k) /\ FileListAt(k) /\ NonEmpty(k) /\ Taken(k)) =>
          /\ k < i
          /\ Cardinality(CallsFor(k, {"script"})) = 1
          /\ Cardinality(CallsFor(k, {"submit"})) = 1
          /\ \A a \in CallsFor(k, {"script"}) : \A b \in CallsFor(k, {"submit"}) :
                /\ a < b
                /\ events[a].file = "dicom-" \o SidOf(k) \o ".sh"
                /\ Len(events[a].text) = 2
                /\ events[a].text[1] = <<"#!/bin/bash">>
                /\ events[b].text =
                     << <<"sbatch", "-J", "dicom-" \o SidOf(k), "-p", args.queue,
                          "-N1", "-c2", "--mem=20G", events[a].file>> >>
          /\ CallsFor(k, {"anon", "ensure", "convert", "commit"}) = {}

\* C5: in batch mode the command line written for a session holds --anon-cmd,
\* --ses, --with-prov and --bids exactly when the configuration has them, and
\* no empty or null token.
C5_ExactOptionalFlags ==
    \A k \in Positions :
       (BatchMode /\ KnownAt(k) /\ FileListAt(k) /\ NonEmpty(k) /\ Taken(k)) =>
          \E j \in CallsFor(k, {"script"}) :
             LET line == events[j].text[2]
             IN  /\ Has(line, "--anon-cmd") <=> args.anon_cmd # None
                 /\ Has(line, "--ses") <=> Sess(k).session # None
                 /\ Has(line, "--with-prov") <=> args.with_prov
                 /\ Has(line, "--bids") <=> args.bids
                 /\ ~Has(line, None)
                 /\ ~Has(line, "")

\* the skip, submit and convert events, in the order they were made
SessionEvents == SelectSeq(events, LAMBDA e : e.op \in {"skip", "submit", "convert"})

\* C6: the per-session events (skip, submit, convert) follow the order of the
\* input, at most one per session; and without a queue the input
\* [("studyA", None, "sub1") -> FileList, ("unknown", None, "sub2") -> FileList]
\* gives, once the run has ended without an error, exactly the conversion of
\* sub1 followed by the skip of sub2.
C6_InputOrderKept ==
    /\ \A a, b \in 1..Len(SessionEvents) :
          a < b => SessionEvents[a].idx < SessionEvents[b].idx
    /\ \A j \in EvIdx : events[j].idx <= i
    /\ ( /\ LocalMode
         /\ Len(study_sessions) = 2
         /\ Sess(1).locator = "studyA" /\ Sess(1).session = None
         /\ FileListAt(1) /\ NonEmpty(1)
         /\ Sess(2).locator = "unknown" /\ Sess(2).session = None
         /\ FileListAt(2) /\ NonEmpty(2)
         /\ pc = "done" )
       => /\ Len(SessionEvents) = 2
          /\ SessionEvents[1].op = "convert" /\ SessionEvents[1].idx = 1
          /\ SessionEvents[1].sid = "sub1" /\ SessionEvents[1].ok
          /\ SessionEvents[2].op = "skip" /\ SessionEvents[2].idx = 2

C6_Witness ==
    /\ LocalMode
    /\ Len(study_sessions) = 2
    /\ Sess(1).locator = "studyA" /\ Sess(1).session = None
    /\ FileListAt(1) /\ NonEmpty(1)
    /\ Sess(2).locator = "unknown" /\ Sess(2).session = None
    /\ FileListAt(2) /\ NonEmpty(2)
    /\ pc = "done"
    /\ Len(SessionEvents) = 2

CollaboratorOps == {"anon", "ensure", "convert", "commit"}

\* C7: when get_annonimized_sid, add_to_datalad or convert_dicoms raises for
\* a session in local mode, that call is the last thing process_args did: the
\* exception is propagating, the call was not made again, no commit completed
\* for the session (and none was started unless the commit is what raised),
\* and the loop did not move to a later session.
C7_CollaboratorFailurePropagates ==
    \A j \in EvIdx :
       (events[j].op \in CollaboratorOps /\ ~events[j].ok) =>
          /\ j = Len(events)
          /\ pc = "raised" /\ error # None
          /\ i = events[j].idx
          /\ \A c \in CallsFor(events[j].idx, {"commit"}) : c = j
          /\ Cardinality(CallsFor(events[j].idx, {events[j].op})) = 1

\* convert_dicoms raised for the first of two sessions of a datalad run
C7_Witness ==
    /\ Len(study_sessions) = 2
    /\ args.datalad
    /\ NonEmpty(2) /\ KnownAt(2)
    /\ \E j \in EvIdx : events[j].op = "convert" /\ ~events[j].ok /\ events[j].idx = 1
    /\ pc = "raised"

\* C8: in batch mode, when the script cannot be written or sbatch exits
\* non-zero for a session, process_args ends at that session with a
\* submission error: the session has no successful submission and no later
\* session has a script or a submission.
C8_SubmissionErrorPropagates ==
    \A e \in batch_env :
       (~e.written \/ e.status # 0) =>
          /\ pc = "raised" /\ i = e.idx
          /\ error \in {"IOError", "SubmissionError"}
          /\ \A j \in CallsFor(e.idx, {"submit"}) : ~events[j].ok
          /\ \A j \in EvIdx : events[j].idx <= e.idx

\* C9: in local mode an ensure call of a session comes before its
\* convert_dicoms call; a commit call comes only after convert_dicoms has
\* returned for that session, at most once, and exactly once when the session
\* is over in datalad mode; without --datalad add_to_datalad is never called.
C9_EnsureConvertCommit ==
    /\ ~args.datalad => \A j \in EvIdx : events[j].op \notin {"ensure", "commit"}
    /\ \A a, b \in EvIdx :
          ( /\ events[a].idx = events[b].idx
            /\ events[a].op = "ensure" /\ events[b].op = "convert" ) => a < b
    /\ \A c \in EvIdx :
          events[c].op = "commit" =>
             \E b \in 1..(c - 1) :
                /\ events[b].op = "convert" /\ events[b].ok
                /\ events[b].idx = events[c].idx
    /\ \A k \in Positions :
          /\ Cardinality(CallsFor(k, {"commit"})) <= 1
          /\ Cardinality(CallsFor(k, {"convert"})) <= 1
          /\ ( /\ args.datalad
               /\ \E b \in CallsFor(k, {"convert"}) : events[b].ok
               /\ (k < i \/ pc = "raised") )
             => Cardinality(CallsFor(k, {"commit"})) = 1

\* a session of a datalad run went through ensure, convert and commit
C9_Witness ==
    \E k \in Positions :
       /\ k < i
       /\ \E a \in CallsFor(k, {"ensure"}) : \E b \in CallsFor(k, {"convert"}) :
             \E c \in CallsFor(k, {"commit"}) :
                a < b /\ b < c /\ events[a].ok /\ events[b].ok /\ events[c].ok

\* C10: the dataset is installed before a conversion only when the
\* anonymized output root does not exist or the dataset of the anonymized
\* study directory is not installed; no ensure call is made for a directory
\* that an earlier add_to_datalad call of the run has installed.
C10_EnsureIdempotent ==
    /\ pc = "ensure" =>
          \/ Dir(AnonOutdir(args)) \notin existing
          \/ Dir(anon_study_outdir) \notin installed
    /\ \A a, b \in EvIdx :
          ( /\ a < b
            /\ events[a].op \in {"ensure", "commit"} /\ events[a].ok
            /\ Dir(events[a].path) = Dir(events[b].path) )
          => events[b].op # "ensure"
    /\ \A j \in EvIdx : events[j].op = "ensure" =>
          events[j].path = opj(AnonOutdir(args), Sess(events[j].idx).locator)

\* two sessions with one locator: the second was converted without a second
\* installation
C10_Witness ==
    /\ Len(study_sessions) = 2
    /\ args.datalad
    /\ Sess(1).locator = Sess(2).locator
    /\ CallsFor(1, {"ensure"}) # {}
    /\ CallsFor(2, {"convert"}) # {}
    /\ CallsFor(2, {"ensure"}) = {}

\* C11: once process_extra_commands has returned for a --command, the run
\* does nothing else: no get_study_sessions, script, submission,
\* add_to_datalad or convert_dicoms call follows it, and the session loop is
\* never entered.
C11_CommandReplacesRun ==
    \A c \in EvIdx :
       (events[c].op = "command" /\ events[c].ok) =>
          /\ \A j \in EvIdx :
                j > c => events[j].op \notin {"get_study_sessions", "script", "submit",
                                              "ensure", "convert", "commit"}
          /\ pc \notin {"group", "loop", "ensure", "convert", "commit"}
          /\ batch_env = {}

\* C12: for every session handed to convert_dicoms the raw output directory
\* is outdir/locator for a non-empty locator and the directory outdir itself
\* for an empty one; the anonymized output directory is formed in the same
\* way from conv_outdir, or from outdir when conv_outdir is None; the subject
\* id and the session label play no part: two sessions of a run with one
\* locator get the same two directories.
C12_OutputDirectories ==
    /\ \A j \in EvIdx :
          events[j].op = "convert" =>
             LET loc == Sess(events[j].idx).locator
                 root == IF args.conv_outdir = <<None>> THEN args.outdir
                                                        ELSE args.conv_outdir
             IN  /\ loc # "" => /\ events[j].path = args.outdir \o <<loc>>
                                /\ events[j].anon_path = root \o <<loc>>
                 /\ loc = "" => /\ Dir(events[j].path) = args.outdir
                                /\ Dir(events[j].anon_path) = root
    /\ \A a, b \in EvIdx :
          ( /\ events[a].op = "convert" /\ events[b].op = "convert"
            /\ Sess(events[a].idx).locator = Sess(events[b].idx).locator )
          => /\ events[a].path = events[b].path
             /\ events[a].anon_path = events[b].anon_path

\* a run with a conv_outdir of its own converted a session with an empty
\* locator and one with a non-empty locator
C12_Witness ==
    /\ args.conv_outdir = <<"conv">>
    /\ args.session = "ses1"
    /\ \E a, b \in EvIdx :
          /\ events[a].op = "convert" /\ events[b].op = "convert"
          /\ Sess(events[a].idx).locator = ""
          /\ Sess(events[b].idx).locator = "studyA"
          /\ events[a].sid # events[b].sid

\* C13: when main() is given both files and a dicom_dir_template, it ends
\* in ValueError before process_args is entered: no command is run, no
\* heuristic is loaded and no session is grouped, queued or converted.
C13_BothInputsRejected ==
    ( /\ \E j \in EvIdx : events[j].op = "get_parser"
      /\ args.files # <<>>
      /\ args.dicom_dir_template # None )
    => /\ pc = "raised"
       /\ error = "ValueError"
       /\ \A j \in EvIdx : events[j].op = "get_parser"
       /\ study_sessions = <<>>
       /\ batch_env = {}

\* the state of session k in the state machine of the dispatcher, read off
\* the calls made for it
SessionState(k) ==
    IF CallsFor(k, {"skip"}) # {} THEN "SKIPPED"
    ELSE IF CallsFor(k, {"submit"}) # {} THEN "QUEUED"
    ELSE IF CallsFor(k, {"anon"}) = {} THEN "PENDING"
    ELSE IF k < i THEN "DONE"
    ELSE "PROCESSING"

C14_Moves ==
    {<<"PENDING", "SKIPPED">>, <<"PENDING", "QUEUED">>,
     <<"PENDING", "PROCESSING">>, <<"PROCESSING", "DONE">>}

C14_Modes ==
    \A k \in Positions :
       /\ BatchMode => SessionState(k) \notin {"PROCESSING", "DONE"}
       /\ LocalMode => SessionState(k) # "QUEUED"
       /\ SessionState(k) # "PENDING" => k <= i
       /\ Cardinality(CallsFor(k, {"skip", "submit", "anon"})) <= 1
       /\ Cardinality(CallsFor(k, {"convert"})) <= 1

\* C14: a session only moves PENDING -> SKIPPED, PENDING -> QUEUED or
\* PENDING -> PROCESSING -> DONE; it is taken up at most once; with a queue
\* no session is ever PROCESSING or DONE and without a queue none is ever
\* QUEUED.
C14_SessionLifecycle ==
    /\ []C14_Modes
    /\ [][\A k \in Positions :
             \/ SessionState(k)' = SessionState(k)
             \/ <<SessionState(k), SessionState(k)'>> \in C14_Moves]_vars

\* a local run has ended with its first session DONE and its second SKIPPED
C14_Witness ==
    /\ LocalMode
    /\ Len(study_sessions) = 2
    /\ pc = "done"
    /\ SessionState(1) = "DONE"
    /\ SessionState(2) = "SKIPPED"

\* C15 as stated: the message of every commit names the subject id of the
\* session, the session label exactly when there is one, a sequence count and
\* the file count, for a FileList and for a SequenceMap, with or without an
\* anonymization command.
C15_MessageNamesSubject ==
    \A j \in EvIdx :
       events[j].op = "commit" =>
          LET s == Sess(events[j].idx)
              suf == events[j].msg.suf
          IN  /\ suf.sid = SidOf(events[j].idx)
              /\ suf.session = s.session
              /\ suf.nseq >= 0
              /\ s.payload.kind = "dict" => suf.nseq = Len(s.payload.seqs)
              /\ suf.ndicoms = IF s.payload.kind = "dict"
                               THEN SumSeq(s.payload.seqs) ELSE s.payload.files

\* C15 (amended): the messages of the ensure and of the commit call of a
\* session share one suffix, which names the id get_annonimized_sid returned
\* for the session (the subject id itself when there is no anonymization
\* command), the session label exactly when there is one, the number of
\* sequences exactly when the payload is a SequenceMap, and the number of
\* files (for a SequenceMap the total over its sequences).
C15_MessageAsBuilt ==
    \A j \in EvIdx :
       events[j].op \in {"ensure", "commit"} =>
          LET k == events[j].idx
              s == Sess(k)
              suf == events[j].msg.suf
          IN  /\ events[j].msg.prefix = IF events[j].op = "commit"
                                        THEN "Converted subject" ELSE "Preparing for"
              /\ \E a \in CallsFor(k, {"anon"}) :
                    /\ a < j /\ events[a].ok
                    /\ suf.sid = events[a].anon_sid
              /\ args.anon_cmd = None => suf.sid = SidOf(k)
              /\ suf.session = s.session
              /\ suf.nseq = IF s.payload.kind = "dict" THEN Len(s.payload.seqs) ELSE -1
              /\ suf.ndicoms = IF s.payload.kind = "dict"
                               THEN SumSeq(s.payload.seqs) ELSE s.payload.files

\* with an anonymization command and a session label, a FileList session and
\* a SequenceMap session were committed under ids that are not their subject
\* ids
C15_Witness ==
    /\ args.anon_cmd # None
    /\ args.session # None
    /\ \E a, b \in EvIdx :
          /\ events[a].op = "commit" /\ events[b].op = "commit"
          /\ Sess(events[a].idx).payload.kind = "list"
          /\ Sess(events[b].idx).payload.kind = "dict"
          /\ events[a].msg.suf.sid # SidOf(events[a].idx)
          /\ events[b].msg.suf.nseq = MaxSeqs

\* C16: the payload is validated before the locator is looked at: a session
\* with the locator "unknown" and an empty payload is not skipped; the run
\* ends at it in ValueError, without a skip warning for it, and no later
\* session is ever taken up.
C16_ValidationBeforeLocator ==
    \A k \in Positions :
       (Sess(k).locator = "unknown" /\ PayloadLen(Sess(k).payload) = 0) =>
          /\ i <= k
          /\ CallsFor(k, {"skip"}) = {}
          /\ \A j \in EvIdx : events[j].idx < k
          /\ (k = i /\ pc # "loop") => pc = "raised" /\ error = "ValueError"
          /\ \A n \in Positions : n > k => SessionState(n) = "PENDING"

\* the run ended in ValueError at an empty session with the locator
\* "unknown"; a valid session behind it was left alone
C16_Witness ==
    \E k \in Positions :
       /\ Sess(k).locator = "unknown" /\ PayloadLen(Sess(k).payload) = 0
       /\ k < Len(study_sessions)
       /\ pc = "raised" /\ error = "ValueError" /\ i = k

\* C17: in datalad mode the add_to_datalad call before the conversion is
\* made for (conv_outdir or outdir, anonymized study directory) and the one
\* after it for (outdir, raw study directory); for a session that has both,
\* the two calls name the same location exactly when conv_outdir is None or
\* equal to outdir.
C17_RegistrationAndCommitTargets ==
    LET root == IF args.conv_outdir = <<None>> THEN args.outdir ELSE args.conv_outdir
        sameRoot == args.conv_outdir = <<None>> \/ args.conv_outdir = args.outdir
    IN  /\ \A j \in EvIdx :
              LET loc == Sess(events[j].idx).locator
              IN  /\ events[j].op = "ensure" =>
                        /\ events[j].top = root
                        /\ events[j].path = root \o <<loc>>
                  /\ events[j].op = "commit" =>
                        /\ events[j].top = args.outdir
                        /\ events[j].path = args.outdir \o <<loc>>
        /\ \A a, b \in EvIdx :
              ( /\ events[a].op = "ensure" /\ events[b].op = "commit"
                /\ events[a].idx = events[b].idx )
              => /\ a < b
                 /\ ( (events[a].top = events[b].top /\ events[a].path = events[b].path)
                      <=> sameRoot )

\* with a conv_outdir other than outdir a session was registered in one
\* place and committed in another
C17_Witness ==
    /\ args.conv_outdir = <<"conv">>
    /\ \E a, b \in EvIdx :
          /\ events[a].op = "ensure" /\ events[b].op = "commit"
          /\ events[a].idx = events[b].idx
          /\ events[a].ok /\ events[b].ok
          /\ events[a].path # events[b].path

C18_Outcome ==
    /\ pc = "done" =>
          /\ error = None
          /\ \A k \in Positions : SessionState(k) \in {"SKIPPED", "QUEUED", "DONE"}
          /\ Cardinality({j \in EvIdx : events[j].op = "cleanup"}) = 1
          /\ events[Len(events)].op = "cleanup"
    /\ pc = "raised" => error # None
    /\ (pc # "done" \/ error # None) => \A j \in EvIdx : events[j].op # "cleanup"

\* C18: every run of process_args comes to an end (the loop is left or an
\* exception propagates); a run that ends without an error has every session
\* SKIPPED, QUEUED or DONE and has called tempdirs.cleanup() exactly once,
\* as its last call; a run ended by an exception has never called it.
C18_TerminatesAndCleansUp ==
    /\ <>(pc \in {"done", "raised"})
    /\ []C18_Outcome

\* a run over two sessions has ended with the one cleanup call
C18_Witness ==
    /\ pc = "done"
    /\ Len(study_sessions) = MaxSessions
    /\ events[Len(events)].op = "cleanup"
    /\ \A k \in Positions : SessionState(k) \in {"SKIPPED", "DONE"}

====
